---- MODULE Spec2Model ----
(***************************************************************************)
(* Asset staging pipeline of BISSO_E350_Controller: the scripts that       *)
(* bundle, compress, archive, prune and restore the web-UI tree under      *)
(* data/ and data_src/.                                                    *)
(*                                                                         *)
(* A string (a file name, a path, the text of a file) is a sequence of     *)
(* tokens.  A token is a word or one of the punctuation marks the scripts  *)
(* look at: "/", ".", "..", ":", " ", "\n", ";", "/*", "*/", "//", "---".  *)
(* Paths use "/" as their only separator.  The filesystem is a function    *)
(* from normalised absolute paths to file texts; directories are implied   *)
(* by the files below them.                                                *)
(***************************************************************************)
EXTENDS Integers, Sequences, FiniteSets, TLC

VARIABLES
    fs,      \* the filesystem: absolute path -> text
    out,     \* what the last operation printed, in order
    dels,    \* the files the last operation deleted, each with what existed then
    last,    \* name of the last operation
    now,     \* wall clock, in seconds (time.time())
    pc,      \* position of the orchestrated run (at "free": no run in progress)
    fs0,     \* filesystem when the orchestrated run started
    snap,    \* filesystem at the end of the first forward run
    steps    \* operations run so far outside an orchestrated run

vars == <<fs, out, dels, last, now, pc, fs0, snap, steps>>

---------------------------------------------------------------------------
(* String operations of Python, on token sequences.                        *)

WS == {" ", "\n"}

LastOf(s) == s[Len(s)]

\* str.startswith / str.endswith
StartsWith(s, pre) == Len(s) >= Len(pre) /\ SubSeq(s, 1, Len(pre)) = pre
EndsWith(s, suf) ==
    Len(s) >= Len(suf) /\ SubSeq(s, Len(s) - Len(suf) + 1, Len(s)) = suf
EndsWithAny(s, sufs) == \E suf \in sufs : EndsWith(s, suf)

\* s[:-n]
DropLast(s, n) == SubSeq(s, 1, Len(s) - n)

\* "x in s" for a one-token x, and for a token sequence
Contains(s, tok) == \E i \in 1..Len(s) : s[i] = tok
ContainsSeq(s, pat) ==
    \E i \in 1..(Len(s) - Len(pat) + 1) : SubSeq(s, i, i + Len(pat) - 1) = pat

\* str.replace(pat, rep), every occurrence, left to right
RECURSIVE ReplaceAll(_, _, _)
ReplaceAll(s, pat, rep) ==
    IF Len(s) < Len(pat) THEN s
    ELSE IF SubSeq(s, 1, Len(pat)) = pat
         THEN rep \o ReplaceAll(SubSeq(s, Len(pat) + 1, Len(s)), pat, rep)
         ELSE <<s[1]>> \o ReplaceAll(Tail(s), pat, rep)

\* str.strip(): leading and trailing whitespace removed
RECURSIVE LStrip(_)
LStrip(s) == IF s # <<>> /\ s[1] \in WS THEN LStrip(Tail(s)) ELSE s
RECURSIVE RStrip(_)
RStrip(s) == IF s # <<>> /\ LastOf(s) \in WS THEN RStrip(DropLast(s, 1)) ELSE s
Strip(s) == RStrip(LStrip(s))

\* str.split(sep) for a one-token separator
RECURSIVE Split(_, _)
Split(s, sep) ==
    IF ~Contains(s, sep) THEN <<s>>
    ELSE LET i == CHOOSE k \in 1..Len(s) :
                      s[k] = sep /\ \A j \in 1..(k - 1) : s[j] # sep
         IN  <<SubSeq(s, 1, i - 1)>> \o Split(SubSeq(s, i + 1, Len(s)), sep)

\* sep.join(parts)
RECURSIVE JoinWith(_, _)
JoinWith(parts, sep) ==
    IF parts = <<>> THEN <<>>
    ELSE IF Len(parts) = 1 THEN parts[1]
    ELSE parts[1] \o <<sep>> \o JoinWith(Tail(parts), sep)

---------------------------------------------------------------------------
(* Paths.                                                                  *)

DOTJS == <<".", "js">>
DOTCSS == <<".", "css">>
DOTHTML == <<".", "html">>
DOTGZ == <<".", "gz">>

\* c:\data\BISSO_E350_Controller\data and its sibling data_src, written from
\* their common parent, which stands for the drive
DRIVE == <<"c:">>
DATA_DIR == <<"c:", "/", "data">>
SRC_DIR == <<"c:", "/", "data_src">>

\* os.path.basename
Basename(p) == LastOf(Split(p, "/"))

\* os.path.normpath of an absolute path on the drive: "." and empty segments
\* dropped, ".." climbing one directory (never above the drive root)
RECURSIVE NormSegs(_, _)
NormSegs(segs, acc) ==
    IF segs = <<>> THEN acc
    ELSE LET h == segs[1]
         IN  IF h = <<>> \/ h = <<".">> THEN NormSegs(Tail(segs), acc)
             ELSE IF h = <<"..">>
                  THEN NormSegs(Tail(segs),
                                IF Len(acc) > 1 THEN DropLast(acc, 1) ELSE acc)
                  ELSE NormSegs(Tail(segs), Append(acc, h))
NormPath(p) ==
    LET segs == Split(p, "/")
    IN  JoinWith(NormSegs(Tail(segs), <<segs[1]>>), "/")

\* os.path.join(a, b): a rooted b replaces everything but the drive of a
PathJoin(a, b) ==
    IF b # <<>> /\ b[1] = "/" THEN DRIVE \o b ELSE a \o <<"/">> \o b

\* os.path.relpath(p, root) for p below root
RelPath(p, root) == SubSeq(p, Len(root) + 2, Len(p))
Under(p, root) == StartsWith(p, root \o <<"/">>) /\ Len(p) > Len(root) + 1

---------------------------------------------------------------------------
(* The filesystem.                                                         *)

Exists(f, p) == p \in DOMAIN f
WriteFile(f, p, text) == [q \in DOMAIN f \cup {p} |-> IF q = p THEN text ELSE f[q]]
RemoveFile(f, p) == [q \in DOMAIN f \ {p} |-> f[q]]

\* the files os.walk(root) yields
WalkFiles(f, root) == {p \in DOMAIN f : Under(p, root)}

\* gzip.open(.., 'wb') / gzip.open(.., 'rb'): in front of the data a header
\* that carries the time of writing (GzipFile takes mtime from time.time())
Gzip(text, ts) == <<"GZ", ToString(ts)>> \o text
IsGzip(text) == Len(text) >= 2 /\ text[1] = "GZ"
Gunzip(text) == SubSeq(text, 3, Len(text))

\* os.path.getsize
SizeOf(f, p) == Len(f[p])

\* one order in which a set of files is visited
RECURSIVE SeqOf(_)
SeqOf(S) == IF S = {} THEN <<>>
            ELSE LET x == CHOOSE y \in S : TRUE IN <<x>> \o SeqOf(S \ {x})
RECURSIVE Reverse(_)
Reverse(s) == IF s = <<>> THEN <<>> ELSE Append(Reverse(Tail(s)), s[1])

\* a printed line: its wording, the file it names, the number it gives
\* (banner lines that name no file and give no number are left out)
Line(m, p, n) == [msg |-> m, path |-> p, n |-> n]

---------------------------------------------------------------------------
(* Names the scripts spell out.                                            *)

File2(stem, ext) == <<stem, ".", ext>>
In(dir, name) == <<dir, "/">> \o name

BUNDLE_CSS == File2("bundle", "css")
BUNDLE_JS == File2("bundle", "js")
INDEX_HTML == File2("index", "html")
FAVICON == File2("favicon", "ico")
VISUAL_MOCKUP == File2("VISUAL_MOCKUP", "html")

\* keep_files of move_sources_to_src and of finalize_filesystem (the same list)
keep_files ==
    {BUNDLE_CSS, BUNDLE_CSS \o DOTGZ, BUNDLE_JS, BUNDLE_JS \o DOTGZ,
     INDEX_HTML, INDEX_HTML \o DOTGZ, FAVICON}

\* move_exts with markup added
move_exts_WithMarkup == {DOTJS, DOTCSS, DOTHTML}
move_exts == {DOTJS, DOTCSS}

css_files ==
    << In("css", File2("variables", "css")), In("css", File2("layout", "css")),
       In("css", File2("cards", "css")), In("css", File2("charts", "css")),
       In("css", File2("responsive", "css")),
       In("css", File2("mobile-menu", "css")),
       In("shared", File2("enhancements", "css")) >>

js_files ==
    << In("shared", File2("utils", "js")), In("shared", File2("toast", "js")),
       In("shared", File2("state", "js")), In("shared", File2("theme", "js")),
       In("shared", File2("alerts", "js")), In("shared", File2("websocket", "js")),
       In("shared", File2("mini-charts", "js")),
       In("shared", File2("calibration-wizard", "js")),
       In("shared", File2("safety", "js")),
       In("shared", File2("fallback-pages", "js")),
       In("shared", File2("router", "js")), In("shared", File2("graphs", "js")),
       In("shared", File2("mock-data", "js")) >>

\* every source bundle_assets lists
Listed == {css_files[i] : i \in 1..Len(css_files)} \cup {js_files[i] : i \in 1..Len(js_files)}

DataPath(rel) == PathJoin(DATA_DIR, rel)
SrcPath(rel) == PathJoin(SRC_DIR, rel)

---------------------------------------------------------------------------
(* optimize_assets.py                                                      *)

\* Which other representations of a file's asset exist (the asset of x.gz is x)
AssetOf(rel) == IF EndsWith(rel, DOTGZ) THEN DropLast(rel, 2) ELSE rel
PlainRep(f, a) == Exists(f, DataPath(a))
CompressedRep(f, a) == Exists(f, DataPath(a) \o DOTGZ)
ArchivedRep(f, a) == Exists(f, SrcPath(a)) \/ Exists(f, SrcPath(a) \o DOTGZ)

Start(f) == [fs |-> f, out |-> <<>>, dels |-> {}, ok |-> TRUE, count |-> 0, bytes |-> 0]
Say(st, m, p, n) == [st EXCEPT !.out = Append(@, Line(m, p, n))]
\* an exception nothing catches: the traceback is printed and the script ends
Crash(st, p) == [Say(st, "Traceback", p, 0) EXCEPT !.ok = FALSE]
\* the exit status of the process that printed o: no script calls sys.exit,
\* so it is 1 after a traceback and 0 otherwise
ExitStatus(o) == IF \E i \in 1..Len(o) : o[i].msg = "Traceback" THEN 1 ELSE 0

\* os.walk lists a directory in arbitrary order: a walk visits the files in
\* one fixed order or in its reverse
OrderOf(S, rev) == IF rev THEN Reverse(SeqOf(S)) ELSE SeqOf(S)

\* first loop of restore_files: x.gz -> x where x is missing
RECURSIVE RestoreGzLoop(_, _)
RestoreGzLoop(st, order) ==
    IF order = <<>> \/ ~st.ok THEN st
    ELSE LET gz_path == order[1]
             original_path == DropLast(gz_path, 2)
         IN  IF EndsWith(Basename(gz_path), DOTGZ) /\ ~Exists(st.fs, original_path)
             THEN IF IsGzip(st.fs[gz_path])
                  THEN RestoreGzLoop(
                         Say([st EXCEPT !.fs = WriteFile(@, original_path,
                                                       Gunzip(st.fs[gz_path]))],
                             "Restored from .gz", Basename(original_path), 0),
                         Tail(order))
                  \* open(.., 'wb') has created the file when the read fails
                  ELSE Crash([st EXCEPT !.fs = WriteFile(@, original_path, <<>>)],
                             gz_path)
             ELSE RestoreGzLoop(st, Tail(order))

\* second loop of restore_files: data_src/x copied to data/x where x is missing
RECURSIVE RestoreSrcLoop(_, _)
RestoreSrcLoop(st, order) ==
    IF order = <<>> \/ ~st.ok THEN st
    ELSE LET rel_path == RelPath(order[1], SRC_DIR)
             dest_path == DataPath(rel_path)
         IN  IF ~Exists(st.fs, dest_path)
             THEN RestoreSrcLoop(
                    Say([st EXCEPT !.fs = WriteFile(@, dest_path, st.fs[order[1]])],
                        "Restored from data_src", rel_path, 0),
                    Tail(order))
             ELSE RestoreSrcLoop(st, Tail(order))

restore_files(f, rev) ==
    LET s1 == RestoreGzLoop(Start(f), OrderOf(WalkFiles(f, DATA_DIR), rev))
    IN  RestoreSrcLoop(s1, OrderOf(WalkFiles(s1.fs, SRC_DIR), rev))

\* the boundary markers bundle_assets writes
CssMarker(fname) == <<"\n", "/*", " ">> \o fname \o <<" ", "*/", "\n">>
JsMarker(fname) == <<"\n", "//", " ", "---", " ">> \o fname \o <<" ", "---", "\n">>

\* a read that fails: open(path, "r") raises, or infile.read() raises (a text
\* that is not UTF-8); NoBad when every read succeeds
NoBad == [path |-> <<>>, at |-> "none"]

\* the loop over css_files / js_files; b.text is what has been written to the
\* bundle so far.  Nothing catches a failing read: the traceback ends the
\* script, the bundle keeping what was written before
RECURSIVE BundleLoop(_, _, _, _)
BundleLoop(b, names, js, bad) ==
    IF names = <<>> \/ ~b.st.ok THEN b
    ELSE LET fname == names[1]
             path == DataPath(fname)
             marker == IF js THEN JsMarker(fname) \o <<";">> ELSE CssMarker(fname)
         IN  IF ~Exists(b.st.fs, path)
             THEN BundleLoop([b EXCEPT !.st = Say(@, "WARNING: Missing", fname, 0)],
                             Tail(names), js, bad)
             ELSE LET s1 == Say(b.st, "Bundling", fname, 0)
                  IN  IF bad.path = path /\ bad.at = "open"
                      THEN [b EXCEPT !.st = Crash(s1, path)]
                      ELSE IF bad.path = path /\ bad.at = "read"
                      THEN [st |-> Crash(s1, path), text |-> b.text \o marker]
                      ELSE BundleLoop(
                             [st |-> s1,
                              text |-> b.text \o marker \o b.st.fs[path]
                                          \o (IF js THEN <<"\n">> ELSE <<>>)],
                             Tail(names), js, bad)

bundle_assets(f, bad) ==
    LET c == BundleLoop([st |-> Start(f), text |-> <<>>], css_files, FALSE, bad)
        s1 == [c.st EXCEPT !.fs = WriteFile(@, DataPath(BUNDLE_CSS), c.text)]
    IN  IF ~s1.ok THEN s1
        ELSE LET j == BundleLoop([st |-> s1, text |-> <<"'use strict';", "\n">>],
                                 js_files, TRUE, bad)
             IN  [j.st EXCEPT !.fs = WriteFile(@, DataPath(BUNDLE_JS), j.text)]

\* the page update_index_html writes: fixed but for the two ?v={ts} parameters
NewIndex(ts) ==
    <<"<html>", "bundle.css?v=", ToString(ts), "bundle.js?v=", ToString(ts), "</html>">>

update_index_html(f, ts) ==
    IF ~Exists(f, DataPath(INDEX_HTML)) THEN Crash(Start(f), DataPath(INDEX_HTML))
    ELSE Say([Start(f) EXCEPT !.fs = WriteFile(f, DataPath(INDEX_HTML), NewIndex(ts))],
             "Updated index.html", INDEX_HTML, 0)

RECURSIVE GzipBundlesLoop(_, _, _)
GzipBundlesLoop(st, names, ts) ==
    IF names = <<>> THEN st
    ELSE LET path == DataPath(names[1])
         IN  IF Exists(st.fs, path)
             THEN GzipBundlesLoop(
                    Say([st EXCEPT !.fs = WriteFile(@, path \o DOTGZ,
                                                  Gzip(st.fs[path], ts))],
                        "Gzipped", names[1], 0),
                    Tail(names), ts)
             ELSE GzipBundlesLoop(st, Tail(names), ts)

gzip_bundles(f, ts) ==
    GzipBundlesLoop(Start(f), <<BUNDLE_CSS, BUNDLE_JS, INDEX_HTML>>, ts)

\* shutil.move(path, dest) of a file: os.rename replaces an existing dest; where
\* rename refuses (an existing dest on Windows) the fallback copy2 + unlink
\* replaces it as well
MoveFile(f, path, dest) == WriteFile(RemoveFile(f, path), dest, f[path])

\* move_sources_to_src without its keep_files tests
MoveSkips_NoKeepList(path) ==
    \E i \in 1..Len(Split(RelPath(path, DATA_DIR), "/")) :
        Split(RelPath(path, DATA_DIR), "/")[i] = <<"pages">>

\* the tests of the loop body of move_sources_to_src, in its order
MoveSkips(path) ==
    LET file == Basename(path)
    IN  \/ file \in keep_files
        \/ ReplaceAll(file, DOTGZ, <<>>) \in keep_files
        \/ \E i \in 1..Len(Split(RelPath(path, DATA_DIR), "/")) :
               Split(RelPath(path, DATA_DIR), "/")[i] = <<"pages">>
MoveWanted(path) ==
    LET file == Basename(path)
    IN  \/ EndsWithAny(file, move_exts)
        \/ EndsWith(file, DOTGZ) /\ EndsWithAny(DropLast(file, 2), move_exts)

\* the files move_sources_to_src tries to move from tree f
Movable(f) == {p \in WalkFiles(f, DATA_DIR) : ~MoveSkips(p) /\ MoveWanted(p)}

RECURSIVE MoveLoop(_, _, _)
MoveLoop(st, order, bad) ==
    IF order = <<>> THEN st
    ELSE LET path == order[1]
             dest_path == SrcPath(RelPath(path, DATA_DIR))
         IN  IF ~MoveSkips(path) /\ MoveWanted(path)
             THEN IF path \in bad
                  THEN MoveLoop(Say(st, "Error moving", Basename(path), 0),
                                Tail(order), bad)
                  ELSE MoveLoop(Say([st EXCEPT !.fs = MoveFile(@, path, dest_path)],
                                    "Moved to data_src/", Basename(path), 0),
                                Tail(order), bad)
             ELSE MoveLoop(st, Tail(order), bad)

move_sources_to_src(f, rev, bad) ==
    MoveLoop(Start(f), OrderOf(WalkFiles(f, DATA_DIR), rev), bad)

\* an asset is bundled when a bundle holds a marker line with its relative path
BundledRep(f, a) ==
    \/ Exists(f, DataPath(BUNDLE_CSS)) /\ ContainsSeq(f[DataPath(BUNDLE_CSS)], CssMarker(a))
    \/ Exists(f, DataPath(BUNDLE_JS)) /\ ContainsSeq(f[DataPath(BUNDLE_JS)], JsMarker(a))

---------------------------------------------------------------------------
(* final_cleanup.py, cleanup_assets.py, gzip_assets.py, restore_data.py    *)

\* what exists of the asset of data file p, p itself apart, as p is deleted
DelRec(f, p) ==
    LET rel == RelPath(p, DATA_DIR)
        a == AssetOf(rel)
    IN  [path |-> rel,
         size |-> SizeOf(f, p),
         plain |-> rel # a /\ PlainRep(f, a),
         compressed |-> rel = a /\ CompressedRep(f, a),
         bundled |-> BundledRep(f, a),
         archived |-> ArchivedRep(f, a)]

\* sz = os.path.getsize(p); os.remove(p); bytes += sz
Deleted(st, p) ==
    [st EXCEPT !.fs = RemoveFile(@, p), !.dels = @ \cup {DelRec(st.fs, p)},
               !.bytes = @ + SizeOf(st.fs, p)]
Counted(st) == [st EXCEPT !.count = @ + 1]

\* f"{b / 1024:.2f}": kilobytes in hundredths, rounded
KB100(b) == (200 * b + 1024) \div 2048

RECURSIVE FinalGzipLoop(_, _, _)
FinalGzipLoop(st, order, ts) ==
    IF order = <<>> THEN st
    ELSE LET path == order[1]
             gz_path == path \o DOTGZ
         IN  IF EndsWith(Basename(path), DOTHTML) /\ ~Exists(st.fs, gz_path)
             THEN FinalGzipLoop(
                    Say([st EXCEPT !.fs = WriteFile(@, gz_path, Gzip(st.fs[path], ts))],
                        "Gzipped", Basename(path), 0),
                    Tail(order), ts)
             ELSE FinalGzipLoop(st, Tail(order), ts)

FinalSourceExts == {DOTJS, DOTJS \o DOTGZ, DOTCSS, DOTCSS \o DOTGZ}

\* the files finalize_filesystem may try to remove from tree f
FinalRemovable(f) ==
    {p \in WalkFiles(f, DATA_DIR) :
        /\ Basename(p) \notin keep_files
        /\ EndsWithAny(Basename(p), FinalSourceExts \cup {DOTHTML})}

RECURSIVE FinalRemoveLoop(_, _, _)
FinalRemoveLoop(st, order, bad) ==
    IF order = <<>> THEN st
    ELSE LET file_path == order[1]
             file == Basename(file_path)
             is_bundle == file \in keep_files
             s1 == IF ~is_bundle /\ EndsWithAny(file, FinalSourceExts)
                   THEN IF file_path \in bad
                        THEN Say(st, "Error removing", file, 0)
                        ELSE Counted(Deleted(st, file_path))
                   ELSE st
             s2 == IF /\ ~is_bundle
                      /\ EndsWith(file, DOTHTML) /\ file # INDEX_HTML
                      /\ Exists(s1.fs, file_path \o DOTGZ)
                   THEN IF file_path \in bad
                        THEN s1
                        ELSE Say(Counted(Deleted(s1, file_path)),
                                 "Removed uncompressed (gz exists)", file, 0)
                   ELSE s1
         IN  FinalRemoveLoop(s2, Tail(order), bad)

finalize_filesystem(f, rev, bad, ts) ==
    LET s1 == FinalGzipLoop(Start(f), OrderOf(WalkFiles(f, DATA_DIR), rev), ts)
        s2 == FinalRemoveLoop(s1, OrderOf(WalkFiles(s1.fs, DATA_DIR), rev), bad)
    IN  Say(Say(Say(s2, "Cleanup Complete.", <<>>, 0),
                "Removed files", <<>>, s2.count),
            "Freed KB", <<>>, KB100(s2.bytes))

RECURSIVE CleanupLoop(_, _)
CleanupLoop(st, order) ==
    IF order = <<>> THEN st
    ELSE LET file == Basename(order[1])
             original_path == DropLast(order[1], 2)
         IN  IF EndsWith(file, DOTGZ) /\ Exists(st.fs, original_path)
             THEN CleanupLoop(
                    Say(Counted(Deleted(st, original_path)), "Removed as .gz exists",
                        DropLast(file, 2), SizeOf(st.fs, original_path)),
                    Tail(order))
             ELSE CleanupLoop(st, Tail(order))

cleanup_files(f, rev) ==
    LET mockup == DataPath(VISUAL_MOCKUP)
        s1 == IF Exists(f, mockup)
              THEN Say(Deleted(Start(f), mockup), "Removed", mockup, SizeOf(f, mockup))
              ELSE Start(f)
        s2 == CleanupLoop(s1, OrderOf(WalkFiles(s1.fs, DATA_DIR), rev))
    IN  Say(Say(s2, "Cleanup finished. Removed files", <<>>, s2.count),
            "freed KB", <<>>, KB100(s2.bytes))

RECURSIVE GzipLoop(_, _, _)
GzipLoop(st, order, ts) ==
    IF order = <<>> THEN st
    ELSE LET file_path == order[1]
             file == Basename(file_path)
         IN  IF EndsWithAny(file, {DOTJS, DOTCSS, DOTHTML}) /\ ~EndsWith(file, DOTGZ)
             THEN GzipLoop(
                    Counted(Say([st EXCEPT !.fs = WriteFile(@, file_path \o DOTGZ,
                                                          Gzip(st.fs[file_path], ts))],
                                "Gzipping", file, 0)),
                    Tail(order), ts)
             ELSE GzipLoop(st, Tail(order), ts)

gzip_files(f, rev, ts) ==
    LET s1 == GzipLoop(Start(f), OrderOf(WalkFiles(f, DATA_DIR), rev), ts)
    IN  Say(s1, "Finished. Gzipped files", <<>>, s1.count)

RECURSIVE RestoreDataLoop(_, _, _)
RestoreDataLoop(st, order, bad) ==
    IF order = <<>> THEN st
    ELSE LET src_path == order[1]
             rel_path == RelPath(src_path, SRC_DIR)
             dest_path == DataPath(rel_path)
         IN  IF src_path \in bad
             THEN RestoreDataLoop(Say(st, "Error restoring", rel_path, 0),
                                  Tail(order), bad)
             ELSE RestoreDataLoop(
                    Counted([st EXCEPT !.fs = MoveFile(@, src_path, dest_path)]),
                    Tail(order), bad)

\* restore_data copying instead of moving: the archive keeps its files
restore_data_KeepArchive(f, rev, bad) ==
    LET s1 == RestoreDataLoop(Start(f), OrderOf(WalkFiles(f, SRC_DIR), rev), bad)
        kept == [q \in DOMAIN s1.fs \cup WalkFiles(f, SRC_DIR) |->
                    IF q \in DOMAIN s1.fs THEN s1.fs[q] ELSE f[q]]
    IN  Say([s1 EXCEPT !.fs = kept], "Restored files.", <<>>, s1.count)
\* data_src exists when something is in it
restore_data(f, rev, bad) ==
    IF WalkFiles(f, SRC_DIR) = {}
    THEN Say(Start(f), "data_src directory does not exist.", <<>>, 0)
    ELSE LET s1 == RestoreDataLoop(Start(f), OrderOf(WalkFiles(f, SRC_DIR), rev), bad)
         IN  Say(s1, "Restored files.", <<>>, s1.count)

---------------------------------------------------------------------------
(* recover_assets.py                                                       *)

\* a match of r'/\* (.*?) \*/' starting at i and closing at j: "/*", a space,
\* the group s[i+2 .. j-1] without a newline, a space, "*/"
ClosesAt(s, i, j) ==
    /\ j >= i + 2 /\ j + 1 <= Len(s)
    /\ s[j] = " " /\ s[j + 1] = "*/"
    /\ \A k \in (i + 2)..(j - 1) : s[k] # "\n"
MatchesAt(s, i) ==
    /\ i + 1 <= Len(s) /\ s[i] = "/*" /\ s[i + 1] = " "
    /\ \E j \in 1..Len(s) : ClosesAt(s, i, j)

\* re.split(r'/\* (.*?) \*/', s): [before, group, between, group, .., after]
RECURSIVE ReSplit(_)
ReSplit(s) ==
    IF ~\E i \in 1..Len(s) : MatchesAt(s, i) THEN <<s>>
    ELSE LET i == CHOOSE k \in 1..Len(s) :
                      MatchesAt(s, k) /\ \A m \in 1..(k - 1) : ~MatchesAt(s, m)
             \* .*? is lazy: the nearest closing
             j == CHOOSE k \in 1..Len(s) :
                      ClosesAt(s, i, k) /\ \A m \in 1..(k - 1) : ~ClosesAt(s, i, m)
         IN  <<SubSeq(s, 1, i - 1), SubSeq(s, i + 2, j - 1)>>
                 \o ReSplit(SubSeq(s, j + 2, Len(s)))

\* '".." in fname'
HasDotDot(s) ==
    \/ Contains(s, "..")
    \/ \E i \in 1..(Len(s) - 1) : s[i] = "." /\ s[i + 1] = "."

\* lines 44-46: the "validation" of a marker's file name
CleanName(fname) ==
    IF HasDotDot(fname) \/ Contains(fname, ":")
    THEN Strip(ReplaceAll(fname, <<":">>, <<>>))
    ELSE fname

\* a path open(.., "w") cannot create: a directory, or below a plain file
IsDir(f, p) ==
    \E q \in DOMAIN f \cup {DATA_DIR \o <<"/">>} : StartsWith(q, p \o <<"/">>)
BelowFile(f, p) == \E q \in DOMAIN f : StartsWith(p, q \o <<"/">>)

\* a write that leaves an existing file alone
WriteEntry_KeepExisting(f, out_path, fcontent) ==
    IF Exists(f, out_path) THEN f
    ELSE WriteFile(f, out_path, Strip(fcontent) \o <<"\n">>)
\* with open(out_path, "w") as outfile: outfile.write(fcontent.strip() + "\n")
WriteEntry(f, out_path, fcontent) ==
    WriteFile(f, out_path, Strip(fcontent) \o <<"\n">>)

RECURSIVE UnbundleLoop(_, _, _)
UnbundleLoop(st, parts, i) ==
    IF i > Len(parts) \/ ~st.ok THEN st
    ELSE LET fname == CleanName(Strip(parts[i]))
             fcontent == parts[i + 1]
             out_path == NormPath(PathJoin(DATA_DIR, fname))
         IN  IF IsDir(st.fs, out_path) \/ BelowFile(st.fs, out_path)
             THEN Crash(st, out_path)
             ELSE UnbundleLoop(
                    Say([st EXCEPT !.fs = WriteEntry(@, out_path, fcontent)],
                        "Restoring", fname, 0),
                    parts, i + 2)

unbundle(f, bundle_file) ==
    LET path == DataPath(bundle_file)
    IN  IF ~Exists(f, path) THEN Say(Start(f), "Error: not found!", bundle_file, 0)
        ELSE LET parts == ReSplit(f[path])
                 s0 == Say(Start(f), "Unbundling", bundle_file, 0)
             IN  IF Len(parts) < 3 THEN Say(s0, "No files found in bundle!", bundle_file, 0)
                 ELSE UnbundleLoop(s0, parts, 2)

\* __main__ cut after its first call
recover_main_FirstOnly(f) == unbundle(f, BUNDLE_JS)
\* __main__ of recover_assets.py
recover_main(f) ==
    LET s1 == unbundle(f, BUNDLE_JS)
        s2 == IF s1.ok THEN unbundle(s1.fs, BUNDLE_CSS) ELSE s1
    IN  [s2 EXCEPT !.out = s1.out \o (IF s1.ok THEN s2.out ELSE <<>>)]

---------------------------------------------------------------------------
(* bundle_assets_draft.py                                                  *)

\* the tokens of the file names below DATA_DIR, in the order of their
\* characters' code points: list.sort() compares the path strings
TokenOrder ==
    <<".", "/", "alpha", "bundle", "css", "dashboard", "js", "pages", "shared",
      "theme", "utils", "variables", "zeta">>
TokRank(tok) == CHOOSE i \in 1..Len(TokenOrder) : TokenOrder[i] = tok

\* a < b for two path strings
RECURSIVE PathLess(_, _)
PathLess(a, b) ==
    IF a = <<>> THEN b # <<>>
    ELSE IF b = <<>> THEN FALSE
    ELSE IF a[1] = b[1] THEN PathLess(Tail(a), Tail(b))
    ELSE TokRank(a[1]) < TokRank(b[1])

\* files_to_bundle.sort()
RECURSIVE SortedPaths(_)
SortedPaths(S) ==
    IF S = {} THEN <<>>
    ELSE LET m == CHOOSE x \in S : \A y \in S \ {x} : PathLess(x, y)
         IN  <<m>> \o SortedPaths(S \ {m})

priority ==
    <<File2("utils", "js"), File2("toast", "js"), File2("state", "js"),
      File2("theme", "js")>>

\* get_priority without the table: every file after the ranked ones
get_priority_NoTable(path) == 999
get_priority(path) ==
    LET name == Basename(path)
    IN  IF \E i \in 1..Len(priority) : priority[i] = name
        THEN (CHOOSE i \in 1..Len(priority) : priority[i] = name) - 1
        ELSE 999

\* files_to_bundle.sort(key=get_priority): the sort is stable, so the files
\* of one key keep their order
RECURSIVE SortByPriority(_, _)
SortByPriority(files, k) ==
    IF k >= Len(priority)
    THEN SelectSeq(files, LAMBDA x : get_priority(x) = 999)
    ELSE SelectSeq(files, LAMBDA x : get_priority(x) = k)
             \o SortByPriority(files, k + 1)

FilesMarker(name) ==
    <<"\n", "/*", " ", "---", " ">> \o name \o <<" ", "---", " ", "*/", "\n">>

\* the loop that writes the bundle; a failing read is caught and printed,
\* and the marker is already written when it is infile.read() that fails
RECURSIVE FilesLoop(_, _, _)
FilesLoop(b, files, bad) ==
    IF files = <<>> THEN b
    ELSE LET fname == files[1]
             s1 == Say(b.st, "Adding", Basename(fname), 0)
         IN  IF bad.path = fname /\ bad.at = "open"
             THEN FilesLoop([b EXCEPT !.st = Say(s1, "Error reading", fname, 0)],
                            Tail(files), bad)
             ELSE IF bad.path = fname /\ bad.at = "read"
             THEN FilesLoop([st |-> Say(s1, "Error reading", fname, 0),
                             text |-> b.text \o FilesMarker(Basename(fname))],
                            Tail(files), bad)
             ELSE FilesLoop([st |-> s1,
                             text |-> b.text \o FilesMarker(Basename(fname))
                                         \o b.st.fs[fname] \o <<"\n">>],
                            Tail(files), bad)

\* the files the walk collects
Collected(f, extension, output_filename) ==
    {path \in WalkFiles(f, DATA_DIR) :
        /\ EndsWith(Basename(path), extension)
        /\ ~EndsWith(Basename(path), DOTGZ)
        /\ Basename(path) # output_filename}

bundle_files(f, extension, output_filename, bad) ==
    LET sorted == SortedPaths(Collected(f, extension, output_filename))
        files_to_bundle == IF extension = DOTJS THEN SortByPriority(sorted, 0)
                           ELSE sorted
        s0 == Say(Start(f), "Bundling files into", output_filename, 0)
        b == FilesLoop([st |-> s0, text |-> <<>>], files_to_bundle, bad)
    IN  Say([b.st EXCEPT !.fs = WriteFile(@, DataPath(output_filename), b.text)],
            "Created", output_filename, 0)

---------------------------------------------------------------------------
(* The trees the operations start from.                                    *)

MaxTime == 1
MaxSteps == 2

TxtA == <<"a", ";", "\n">>
TxtB == <<" ", "b", "\n", "\n">>
\* a stylesheet whose comments read like boundary markers
TxtC == <<"/*", " ", "..", "/", "secret", " ", "*/", "\n", "x", "\n",
          "/*", " ", "/", "etc", "/", "passwd", " ", "*/", "\n", "y", "\n",
          "/*", " ", "c", ":", "/", "z", " ", "*/", "\n", "w", "\n">>
\* a stylesheet in which one marker-like comment comes twice
TxtD == <<"/*", " ", "css", "/", "x", ".", "css", " ", "*/", "\n", "p", "\n",
          "/*", " ", "css", "/", "x", ".", "css", " ", "*/", "\n", "q", "\n">>
TxtOld == <<"old", "\n">>
TxtIndex == <<"<html>", "old", "</html>">>
\* a script bundle of the earlier run, which marked scripts as styles are marked
TxtE == <<"\n", "/*", " ", "css", "/", "x", ".", "css", " ", "*/", "\n", "r", "\n">>
Texts == {TxtA, TxtB, TxtC}

VARIABLES_CSS == In("css", File2("variables", "css"))
UTILS_JS == In("shared", File2("utils", "js"))
DASH_JS == <<"pages", "/", "dashboard", "/">> \o File2("dashboard", "js")
DASH_HTML == <<"pages", "/", "dashboard", "/">> \o File2("dashboard", "html")
SHARED_BUNDLE_JS == In("shared", BUNDLE_JS)

Assets == {VARIABLES_CSS, UTILS_JS, DASH_JS, DASH_HTML, SHARED_BUNDLE_JS, VISUAL_MOCKUP}

EmptyFs == [q \in {} |-> <<>>]
Base == WriteFile(WriteFile(EmptyFs, DataPath(INDEX_HTML), TxtIndex),
                  DataPath(FAVICON), <<"icon">>)

\* the tree in which asset a has the given representations; a bundle is what
\* bundle_assets wrote while a was there with text t
TreeOf(a, t, plain, gz, bund, arch) ==
    LET f1 == WriteFile(Base, DataPath(a), t)
        f2 == IF bund THEN bundle_assets(f1, NoBad).fs ELSE f1
        f3 == IF gz THEN WriteFile(f2, DataPath(a) \o DOTGZ, Gzip(t, 0)) ELSE f2
        f4 == IF arch THEN WriteFile(f3, SrcPath(a), TxtOld) ELSE f3
    IN  IF plain THEN f4 ELSE RemoveFile(f4, DataPath(a))

\* a tree to recover: both bundles name css/x.css, which is there already
X_CSS == In("css", File2("x", "css"))
RecoveredTree ==
    LET f1 == bundle_assets(WriteFile(Base, DataPath(VARIABLES_CSS), TxtD), NoBad).fs
        f2 == WriteFile(f1, DataPath(BUNDLE_JS), TxtE)
    IN  WriteFile(f2, DataPath(X_CSS), TxtOld)

\* the texts an asset is tried with
TextsOf(a) ==
    IF a = VARIABLES_CSS THEN Texts
    ELSE IF a = UTILS_JS THEN {TxtA, TxtB} ELSE {TxtA}

Trees ==
    UNION {{TreeOf(a, t, plain, gz, bund, arch) :
              t \in TextsOf(a), plain \in BOOLEAN, gz \in BOOLEAN,
              bund \in BOOLEAN, arch \in BOOLEAN} : a \in Assets}
        \cup {RecoveredTree}

NoRun == [run |-> 0, at |-> "free", prune |-> "none"]

Init ==
    /\ fs \in Trees
    /\ out = <<>> /\ dels = {} /\ last = "init"
    /\ now = 0 /\ steps = 0
    /\ pc = NoRun /\ fs0 = EmptyFs /\ snap = EmptyFs

---------------------------------------------------------------------------
(* The operations, run one at a time in any order.                         *)

Ran(name, st) ==
    /\ fs' = st.fs /\ out' = st.out /\ dels' = st.dels /\ last' = name

Free ==
    /\ pc.at = "free" /\ steps < MaxSteps
    /\ steps' = steps + 1
    /\ UNCHANGED <<pc, fs0, snap>>

\* at most one file on which the operating system refuses the call, among
\* the files the operation calls it on
BadSets(S) == {{}} \cup {{p} : p \in S}

RestoreFiles ==
    /\ Free
    /\ \E rev \in BOOLEAN : Ran("restore_files", restore_files(fs, rev))
    /\ UNCHANGED now

\* at most one listed source whose read fails, at open or at read
BadReads(f) ==
    {NoBad} \cup {[path |-> DataPath(a), at |-> k] :
                     a \in {x \in Listed : PlainRep(f, x)}, k \in {"open", "read"}}

BundleAssets ==
    /\ Free
    /\ \E bad \in BadReads(fs) : Ran("bundle_assets", bundle_assets(fs, bad))
    /\ UNCHANGED now

UpdateIndexHtml ==
    /\ Free
    /\ \E ts \in now..MaxTime :
          /\ now' = ts
          /\ Ran("update_index_html", update_index_html(fs, ts))

GzipBundles ==
    /\ Free
    /\ \E ts \in now..MaxTime :
          /\ now' = ts
          /\ Ran("gzip_bundles", gzip_bundles(fs, ts))

MoveSourcesToSrc ==
    /\ Free
    /\ \E rev \in BOOLEAN, bad \in BadSets(Movable(fs)) :
          Ran("move_sources_to_src", move_sources_to_src(fs, rev, bad))
    /\ UNCHANGED now

FinalizeFilesystem ==
    /\ Free
    /\ \E rev \in BOOLEAN, bad \in BadSets(FinalRemovable(fs)), ts \in now..MaxTime :
          /\ now' = ts
          /\ Ran("finalize_filesystem", finalize_filesystem(fs, rev, bad, ts))

CleanupFiles ==
    /\ Free
    /\ \E rev \in BOOLEAN : Ran("cleanup_files", cleanup_files(fs, rev))
    /\ UNCHANGED now

GzipFiles ==
    /\ Free
    /\ \E rev \in BOOLEAN, ts \in now..MaxTime :
          /\ now' = ts
          /\ Ran("gzip_files", gzip_files(fs, rev, ts))

RestoreData ==
    /\ Free
    /\ \E rev \in BOOLEAN, bad \in BadSets(WalkFiles(fs, SRC_DIR)) :
          Ran("restore_data", restore_data(fs, rev, bad))
    /\ UNCHANGED now

Unbundle ==
    /\ Free
    /\ \E bundle_file \in {BUNDLE_JS, BUNDLE_CSS} :
          Ran("unbundle", unbundle(fs, bundle_file))
    /\ UNCHANGED now

RecoverMain ==
    /\ Free
    /\ Ran("recover_main", recover_main(fs))
    /\ UNCHANGED now

\* at most one collected file whose read fails, at open or at read
BadFileReads(S) ==
    {NoBad} \cup {[path |-> p, at |-> k] : p \in S, k \in {"open", "read"}}

BundleFiles ==
    /\ Free
    /\ \E ext \in {"js", "css"} :
          \E bad \in BadFileReads(Collected(fs, <<".", ext>>, File2("bundle", ext))) :
              Ran("bundle_files", bundle_files(fs, <<".", ext>>, File2("bundle", ext), bad))
    /\ UNCHANGED now

Next ==
    \/ RestoreFiles \/ BundleAssets \/ UpdateIndexHtml \/ GzipBundles
    \/ MoveSourcesToSrc \/ FinalizeFilesystem \/ CleanupFiles \/ GzipFiles
    \/ RestoreData \/ Unbundle \/ RecoverMain

Spec == Init /\ [][Next]_vars

---------------------------------------------------------------------------
(* The orchestrated run: the stages of __main__ of optimize_assets.py in    *)
(* its order, ended by move_sources_to_src or by finalize_filesystem, then  *)
(* either the same run again or the way back.                               *)

\* a full source tree: any of the entry page, the icon and the assets as
\* plain files, no bundle, nothing compressed, an empty archive
RunAssets == (Assets \ {VISUAL_MOCKUP}) \cup {INDEX_HTML, FAVICON}
TextIn(a, t) ==
    IF a = INDEX_HTML THEN TxtIndex ELSE IF a = FAVICON THEN <<"icon">> ELSE t

RECURSIVE Planted(_, _, _)
Planted(f, S, t) ==
    IF S = {} THEN f
    ELSE LET a == CHOOSE x \in S : TRUE
         IN  Planted(WriteFile(f, DataPath(a), TextIn(a, t)), S \ {a}, t)

SourceTrees == {Planted(EmptyFs, S, t) : S \in SUBSET RunAssets, t \in {TxtA, TxtB}}

InitRun ==
    /\ fs \in SourceTrees
    /\ out = <<>> /\ dels = {} /\ last = "init"
    /\ now = 0 /\ steps = 0
    /\ \E v \in {"move_sources_to_src", "finalize_filesystem"} :
          pc = [run |-> 1, at |-> "bundle", prune |-> v]
    /\ fs0 = fs /\ snap = EmptyFs

\* the next position, "crashed" when the stage ended in a traceback
Goto(st, at) == pc' = [pc EXCEPT !.at = IF st.ok THEN at ELSE "crashed"]

StageBundle ==
    /\ pc.at = "bundle" \/ (pc.at = "ran" /\ pc.run = 1)
    /\ \E bad \in BadReads(fs) :
          LET st == bundle_assets(fs, bad)
          IN  /\ Ran("bundle_assets", st)
              /\ pc' = [pc EXCEPT !.at = IF st.ok THEN "index" ELSE "crashed",
                                  !.run = IF pc.at = "ran" THEN 2 ELSE pc.run]
    /\ UNCHANGED <<now, fs0, snap, steps>>

StageIndex ==
    /\ pc.at = "index"
    /\ \E ts \in now..MaxTime :
          LET st == update_index_html(fs, ts)
          IN  now' = ts /\ Ran("update_index_html", st) /\ Goto(st, "gzip")
    /\ UNCHANGED <<fs0, snap, steps>>

StageGzip ==
    /\ pc.at = "gzip"
    /\ \E ts \in now..MaxTime :
          LET st == gzip_bundles(fs, ts)
          IN  now' = ts /\ Ran("gzip_bundles", st) /\ Goto(st, "prune")
    /\ UNCHANGED <<fs0, snap, steps>>

StageMove ==
    /\ pc.at = "prune" /\ pc.prune = "move_sources_to_src"
    /\ \E rev \in BOOLEAN, bad \in BadSets(Movable(fs)) :
          LET st == move_sources_to_src(fs, rev, bad)
          IN  /\ Ran("move_sources_to_src", st) /\ Goto(st, "ran")
              /\ snap' = IF pc.run = 1 THEN st.fs ELSE snap
    /\ UNCHANGED <<now, fs0, steps>>

StageFinalize ==
    /\ pc.at = "prune" /\ pc.prune = "finalize_filesystem"
    /\ \E rev \in BOOLEAN, bad \in BadSets(FinalRemovable(fs)), ts \in now..MaxTime :
          LET st == finalize_filesystem(fs, rev, bad, ts)
          IN  /\ now' = ts
              /\ Ran("finalize_filesystem", st) /\ Goto(st, "ran")
              /\ snap' = IF pc.run = 1 THEN st.fs ELSE snap
    /\ UNCHANGED <<fs0, steps>>

\* the way back after the first run
BackRestoreFiles ==
    /\ pc.at = "ran" /\ pc.run = 1
    /\ \E rev \in BOOLEAN :
          LET st == restore_files(fs, rev)
          IN  Ran("restore_files", st) /\ Goto(st, "restored")
    /\ UNCHANGED <<now, fs0, snap, steps>>

BackRestoreData ==
    /\ pc.at = "ran" /\ pc.run = 1
    /\ \E rev \in BOOLEAN, bad \in BadSets(WalkFiles(fs, SRC_DIR)) :
          LET st == restore_data(fs, rev, bad)
          IN  Ran("restore_data", st) /\ Goto(st, "restored")
    /\ UNCHANGED <<now, fs0, snap, steps>>

\* the tree with everything but the two bundles taken away
OnlyBundles(f) ==
    [q \in DOMAIN f \cap {DataPath(BUNDLE_CSS), DataPath(BUNDLE_JS)} |-> f[q]]

\* the round trip's empty destination, set up right after bundling
EmptyDestination ==
    /\ pc.at = "index" /\ pc.run = 1
    /\ fs' = OnlyBundles(fs) /\ last' = "empty_destination"
    /\ out' = <<>> /\ dels' = {}
    /\ pc' = [pc EXCEPT !.at = "cleared"]
    /\ UNCHANGED <<now, fs0, snap, steps>>

BackUnbundle ==
    /\ \/ pc.at = "ran" /\ pc.run = 1
       \/ pc.at = "restored" /\ last # "recover_main"
       \/ pc.at = "cleared"
    /\ LET st == recover_main(fs)
       IN  /\ Ran("recover_main", st)
           /\ Goto(st, IF pc.at = "cleared" THEN "roundtrip" ELSE "restored")
    /\ UNCHANGED <<now, fs0, snap, steps>>

NextRun ==
    \/ StageBundle \/ StageIndex \/ StageGzip \/ StageMove \/ StageFinalize
    \/ BackRestoreFiles \/ BackRestoreData \/ BackUnbundle \/ EmptyDestination

SpecRun == InitRun /\ [][NextRun]_vars

---------------------------------------------------------------------------
(* Archiving and taking back: move_sources_to_src on a tree whose archive  *)
(* root is empty, then restore_data.                                       *)

InitArchive ==
    /\ fs \in {f \in SourceTrees \cup Trees : WalkFiles(f, SRC_DIR) = {}}
    /\ out = <<>> /\ dels = {} /\ last = "init"
    /\ now = 0 /\ steps = 0
    /\ pc = [run |-> 1, at |-> "prune", prune |-> "move_sources_to_src"]
    /\ fs0 = fs /\ snap = EmptyFs

NextArchive == StageMove \/ BackRestoreData

SpecArchive == InitArchive /\ [][NextArchive]_vars

---------------------------------------------------------------------------
(* The two bundlers, on trees of several scripts and styles.               *)

\* scripts and styles a tree may hold: ranked and unranked base names, one
\* base name in two directories, a listed style
ALPHA_JS == In("shared", File2("alpha", "js"))
THEME_JS == In("shared", File2("theme", "js"))
ZETA_JS == In("shared", File2("zeta", "js"))
PAGE_UTILS_JS == <<"pages", "/", "dashboard", "/">> \o File2("utils", "js")
BundleInputs == {UTILS_JS, ALPHA_JS, THEME_JS, ZETA_JS, PAGE_UTILS_JS, VARIABLES_CSS}

\* each file has a text of its own
TextFor(rel) == <<"text of">> \o rel \o <<";", "\n">>

RECURSIVE PlantedTexts(_, _)
PlantedTexts(f, S) ==
    IF S = {} THEN f
    ELSE LET a == CHOOSE x \in S : TRUE
         IN  PlantedTexts(WriteFile(f, DataPath(a), TextFor(a)), S \ {a})

InitBundle ==
    /\ \E S \in SUBSET BundleInputs : fs = PlantedTexts(EmptyFs, S)
    /\ out = <<>> /\ dels = {} /\ last = "init"
    /\ now = 0 /\ steps = 0
    /\ pc = NoRun /\ fs0 = EmptyFs /\ snap = EmptyFs

NextBundle == BundleFiles \/ BundleAssets

SpecBundle == InitBundle /\ [][NextBundle]_vars

---------------------------------------------------------------------------
(* The forward run ended by move_sources_to_src, stopped once (the process *)
(* killed between two stages or between two files of a stage's loop) and    *)
(* then started again from its first stage.                                 *)

InitResume == InitRun /\ pc.prune = "move_sources_to_src"

\* the run is over where it stands; the next one is run 2
Stopped(f) ==
    /\ pc.run = 1
    /\ fs' = f /\ out' = <<>> /\ dels' = {} /\ last' = "interrupted"
    /\ pc' = [pc EXCEPT !.at = "bundle", !.run = 2]
    /\ UNCHANGED <<now, fs0, snap, steps>>

InterruptAtBoundary ==
    /\ pc.at \in {"index", "gzip", "prune"}
    /\ Stopped(fs)

\* stopped in bundle_assets: after k sources of the style list, or with the
\* style bundle complete after k sources of the script list
InterruptInBundle ==
    /\ pc.at = "bundle"
    /\ \/ \E k \in 0..Len(css_files) :
             Stopped(WriteFile(fs, DataPath(BUNDLE_CSS),
                               BundleLoop([st |-> Start(fs), text |-> <<>>],
                                          SubSeq(css_files, 1, k), FALSE, NoBad).text))
       \/ \E k \in 0..Len(js_files) :
             LET f1 == WriteFile(fs, DataPath(BUNDLE_CSS),
                                 BundleLoop([st |-> Start(fs), text |-> <<>>],
                                            css_files, FALSE, NoBad).text)
             IN  Stopped(WriteFile(f1, DataPath(BUNDLE_JS),
                                   BundleLoop([st |-> Start(f1),
                                               text |-> <<"'use strict';", "\n">>],
                                              SubSeq(js_files, 1, k), TRUE, NoBad).text))

\* stopped in gzip_bundles after k of its three files
InterruptInGzip ==
    /\ pc.at = "gzip"
    /\ \E k \in 0..3 :
          Stopped(GzipBundlesLoop(Start(fs),
                                  SubSeq(<<BUNDLE_CSS, BUNDLE_JS, INDEX_HTML>>, 1, k),
                                  now).fs)

\* stopped in move_sources_to_src after k files of the walk
InterruptInMove ==
    /\ pc.at = "prune"
    /\ \E rev \in BOOLEAN :
          LET order == OrderOf(WalkFiles(fs, DATA_DIR), rev)
          IN  \E k \in 0..Len(order) :
                  Stopped(MoveLoop(Start(fs), SubSeq(order, 1, k), {}).fs)

NextResume ==
    \/ (pc.at = "bundle" /\ StageBundle)
    \/ StageIndex \/ StageGzip \/ StageMove
    \/ InterruptAtBoundary \/ InterruptInBundle \/ InterruptInGzip \/ InterruptInMove

SpecResume == InitResume /\ [][NextResume]_vars

---------------------------------------------------------------------------
(* Properties of single operations.                                        *)

IsPlain(rel) == rel = AssetOf(rel)
Pruners == {"cleanup_files", "finalize_filesystem"}

\* C1: a pruning operation deletes the plain file of an asset outside the
\* keep-set only while a compressed, bundled or archived representation of
\* that asset exists.
C1_PlainDeletedOnlyWithSurvivor ==
    last \in Pruners =>
        \A d \in dels :
            (IsPlain(d.path) /\ d.path \notin keep_files)
                => (d.compressed \/ d.bundled \/ d.archived)

\* C2: finalize_filesystem deletes a .gz only while the asset's content is
\* still in a bundle or in the archive; it never deletes the last copy.
C2_GzDeletedOnlyWithSurvivor ==
    last = "finalize_filesystem" =>
        \A d \in dels : ~IsPlain(d.path) => (d.bundled \/ d.archived)

ArchiveDest(p) == SrcPath(RelPath(p, DATA_DIR))
Reported(o, m, p) == \E i \in 1..Len(o) : o[i].msg = m /\ o[i].path = p

\* C3: when the archive already holds a file at the source's relative path,
\* move_sources_to_src leaves the archive file and the source as they are and
\* reports the collision.
C3_NoOverwriteOnCollision ==
    [][last' = "move_sources_to_src" =>
          \A p \in Movable(fs) :
              Exists(fs, ArchiveDest(p)) =>
                  /\ fs'[ArchiveDest(p)] = fs[ArchiveDest(p)]
                  /\ Exists(fs', p)
                  /\ Reported(out', "Error moving", Basename(p))]_vars

\* the files an operation created or changed
Written(f, g) == {p \in DOMAIN g : ~Exists(f, p) \/ f[p] # g[p]}

\* C4: unbundle writes no file outside the destination root.
C4_UnbundleStaysInRoot ==
    [][last' = "unbundle" => \A p \in Written(fs, fs') : Under(p, DATA_DIR)]_vars

HasRep(f, a) ==
    PlainRep(f, a) \/ CompressedRep(f, a) \/ BundledRep(f, a) \/ ArchivedRep(f, a)
NonPruning == {"bundle_assets", "gzip_bundles", "move_sources_to_src",
               "restore_files", "restore_data", "unbundle"}

\* C8: under bundle_assets, gzip_bundles, move_sources_to_src, restore_files,
\* restore_data and unbundle, an asset that has a representation keeps one.
C8_RepresentationSurvives ==
    [][last' \in NonPruning =>
          \A a \in Assets : HasRep(fs, a) => HasRep(fs', a)]_vars

\* C10: no pruning operation deletes index.html, and another markup file
\* loses its plain copy only while its compressed sibling exists.
C10_EntryMarkupKept ==
    last \in Pruners =>
        \A d \in dels :
            /\ d.path # INDEX_HTML
            /\ EndsWith(d.path, DOTHTML) => d.compressed

\* a file below a directory named pages
InPages(rel) == \E i \in 1..Len(Split(rel, "/")) : Split(rel, "/")[i] = <<"pages">>
ForwardStages == {"bundle_assets", "update_index_html", "gzip_bundles",
                  "move_sources_to_src", "finalize_filesystem"}

\* C11: no forward stage takes a file under pages out of the deployment root
\* or writes its archive copy: every such file is still there afterwards.
C11_PagesStay ==
    [][last' \in ForwardStages =>
          \A p \in WalkFiles(fs, DATA_DIR) :
              InPages(RelPath(p, DATA_DIR)) =>
                  /\ Exists(fs', p)
                  /\ ArchiveDest(p) \notin Written(fs, fs')]_vars

IsMarkup(rel) == EndsWith(rel, DOTHTML) \/ EndsWith(rel, DOTHTML \o DOTGZ)
BundleTexts(f) ==
    {f[p] : p \in DOMAIN f \cap {DataPath(BUNDLE_CSS), DataPath(BUNDLE_JS)}}

\* C12: move_sources_to_src leaves every markup file (.html, .html.gz) where
\* it is and writes no markup file to the archive; a bundle written by
\* bundle_assets names no markup file and holds no markup text.
C12_OnlyScriptsAndStyles ==
    [][/\ last' = "move_sources_to_src" =>
              /\ \A p \in WalkFiles(fs, DATA_DIR) :
                     IsMarkup(p) => Exists(fs', p) /\ fs'[p] = fs[p]
              /\ \A q \in Written(fs, fs') : ~IsMarkup(q)
       /\ last' = "bundle_assets" =>
              \A b \in BundleTexts(fs') :
                  ~ContainsSeq(b, DOTHTML) /\ ~Contains(b, "<html>")]_vars

\* move_sources_to_src has looked at a markup file outside pages and outside
\* the keep-set, and at its compressed sibling, and both are where they were
C12_Witness ==
    /\ last = "move_sources_to_src"
    /\ Exists(fs, DataPath(VISUAL_MOCKUP))
    /\ Exists(fs, DataPath(VISUAL_MOCKUP) \o DOTGZ)
    /\ \A q \in WalkFiles(fs, SRC_DIR) : ~IsMarkup(q)

RestoreOps == {"restore_files", "restore_data", "unbundle", "recover_main"}

\* C13: a restoring operation leaves every plain file that is already in the
\* deployment root as it is.
C13_RestoreKeepsPresent ==
    [][last' \in RestoreOps =>
          \A p \in WalkFiles(fs, DATA_DIR) :
              ~EndsWith(p, DOTGZ) => Exists(fs', p) /\ fs'[p] = fs[p]]_vars

\* the times of two applications in a row
Times2 == {t \in (now..MaxTime) \X (now..MaxTime) : t[1] <= t[2]}

\* C15: from every tree, each stage applied twice in a row (no call refused
\* by the operating system) leaves the trees that one application leaves.
C15_StagesIdempotent ==
    /\ bundle_assets(bundle_assets(fs, NoBad).fs, NoBad).fs = bundle_assets(fs, NoBad).fs
    /\ \A t \in Times2 :
           gzip_bundles(gzip_bundles(fs, t[1]).fs, t[2]).fs = gzip_bundles(fs, t[1]).fs
    /\ \A t \in Times2, r1 \in BOOLEAN, r2 \in BOOLEAN :
           /\ gzip_files(gzip_files(fs, r1, t[1]).fs, r2, t[2]).fs
                  = gzip_files(fs, r1, t[1]).fs
           /\ finalize_filesystem(finalize_filesystem(fs, r1, {}, t[1]).fs, r2, {}, t[2]).fs
                  = finalize_filesystem(fs, r1, {}, t[1]).fs
    /\ \A r1 \in BOOLEAN, r2 \in BOOLEAN :
           /\ cleanup_files(cleanup_files(fs, r1).fs, r2).fs = cleanup_files(fs, r1).fs
           /\ move_sources_to_src(move_sources_to_src(fs, r1, {}).fs, r2, {}).fs
                  = move_sources_to_src(fs, r1, {}).fs

---------------------------------------------------------------------------
(* Properties of the orchestrated run.                                     *)

\* index.html and its sibling carry the time of the run
Stamped == {DataPath(INDEX_HTML), DataPath(INDEX_HTML) \o DOTGZ}
\* a text without the header of a compressed file, which carries a time too
Payload(t) == IF IsGzip(t) THEN Gunzip(t) ELSE t
SameFiles(f, g, except) ==
    /\ DOMAIN f \ except = DOMAIN g \ except
    /\ \A p \in DOMAIN f \ except : Payload(f[p]) = Payload(g[p])

\* C5: the forward run made twice leaves the trees as the forward run made
\* once left them (the time stamps of the entry page and of the compressed
\* files apart); the bundles of
\* the second run hold the entries of the first.
C5_ForwardRunIdempotent ==
    (pc.at = "ran" /\ pc.run = 2) => SameFiles(fs, snap, Stamped)

\* the sources bundle_assets reads from tree f
BundledSources(f) == {a \in Listed : PlainRep(f, a)}
\* a text without its one trailing newline
Chomp(t) == IF t # <<>> /\ LastOf(t) = "\n" THEN DropLast(t, 1) ELSE t
HasMarkerSyntax(t) == \E i \in 1..Len(t) : MatchesAt(t, i)

\* C6: sources free of marker syntax, bundled and then unbundled into an
\* empty destination, come back at their paths with their texts (one trailing
\* newline apart), and nothing else appears.
C6_RoundTrip ==
    (pc.at = "roundtrip" /\ \A a \in BundledSources(fs0) : ~HasMarkerSyntax(fs0[DataPath(a)]))
        => /\ \A a \in BundledSources(fs0) :
                  /\ PlainRep(fs, a)
                  /\ Chomp(fs[DataPath(a)]) = Chomp(fs0[DataPath(a)])
           /\ DOMAIN fs \ DOMAIN OnlyBundles(fs)
                  = {DataPath(a) : a \in BundledSources(fs0)}

\* C7: after a forward run ended by move_sources_to_src and the way back,
\* every file of the source tree is a plain file of the deployment root
\* again, with its text.
C7_SourceTreeRestored ==
    (pc.at = "restored" /\ pc.prune = "move_sources_to_src")
        => \A p \in DOMAIN fs0 : Exists(fs, p) /\ fs[p] = fs0[p]

Produced == keep_files \ {FAVICON}

\* C9: after a forward run every keep-set path that was produced or was
\* there is in the deployment root, and no keep-set file is in the archive.
C9_KeepSetIntegrity ==
    /\ pc.at = "ran" =>
          \A k \in keep_files :
              (k \in Produced \/ Exists(fs0, DataPath(k))) => Exists(fs, DataPath(k))
    /\ \A k \in keep_files : ~Exists(fs, SrcPath(k))

\* a forward run has ended in which move_sources_to_src archived a source
C9_Witness ==
    /\ pc.at = "ran" /\ last = "move_sources_to_src"
    /\ Reported(out, "Moved to data_src/", Basename(UTILS_JS))
    /\ Exists(fs, SrcPath(UTILS_JS))
    /\ \A k \in keep_files : Exists(fs, DataPath(k))

---------------------------------------------------------------------------
(* Properties of the bundlers.                                             *)

\* the scripts bundle_files is given, and where a text starts in a bundle
Scripts(f) ==
    {p \in WalkFiles(f, DATA_DIR) : EndsWith(p, DOTJS) /\ Basename(p) # BUNDLE_JS}
Styles(f) ==
    {p \in WalkFiles(f, DATA_DIR) : EndsWith(p, DOTCSS) /\ Basename(p) # BUNDLE_CSS}
PosOf(b, text) ==
    CHOOSE i \in 1..Len(b) :
        /\ SubSeq(b, i, i + Len(text) - 1) = text
        /\ \A j \in 1..(i - 1) : SubSeq(b, j, j + Len(text) - 1) # text
Ranked(p) == \E i \in 1..Len(priority) : priority[i] = Basename(p)
RankOf(p) == CHOOSE i \in 1..Len(priority) : priority[i] = Basename(p)
NoReadFailed(o) == \A i \in 1..Len(o) : o[i].msg \notin {"Error reading", "Traceback"}

\* C16: in the script bundle bundle_files writes, a file whose base name is in
\* the priority table comes before every file whose base name is not, ranked
\* files come in table order, unranked files in the order of their paths;
\* every script is there when no read failed.
C16_BundleOrder ==
    [][(last' = "bundle_files" /\ out'[1].path = BUNDLE_JS) =>
          LET b == fs'[DataPath(BUNDLE_JS)]
              In_b == {p \in Scripts(fs) : ContainsSeq(b, fs[p])}
          IN  /\ NoReadFailed(out') => In_b = Scripts(fs)
              /\ \A p \in In_b, q \in In_b :
                     (\/ Ranked(p) /\ ~Ranked(q)
                      \/ Ranked(p) /\ Ranked(q) /\ RankOf(p) < RankOf(q)
                      \/ ~Ranked(p) /\ ~Ranked(q) /\ PathLess(p, q))
                         => PosOf(b, fs[p]) < PosOf(b, fs[q])]_vars

\* bundle_files has written zeta.js, utils.js, alpha.js and theme.js as
\* utils.js, theme.js, alpha.js, zeta.js
C16_Witness ==
    /\ last = "bundle_files" /\ out[1].path = BUNDLE_JS /\ NoReadFailed(out)
    /\ \A a \in {UTILS_JS, THEME_JS, ALPHA_JS, ZETA_JS} :
           /\ Exists(fs, DataPath(a))
           /\ ContainsSeq(fs[DataPath(BUNDLE_JS)], fs[DataPath(a)])
    /\ LET b == fs[DataPath(BUNDLE_JS)]
           at(a) == PosOf(b, fs[DataPath(a)])
       IN  at(UTILS_JS) < at(THEME_JS) /\ at(THEME_JS) < at(ALPHA_JS)
              /\ at(ALPHA_JS) < at(ZETA_JS)

\* how often a marker occurs in a bundle
Count(b, pat) ==
    Cardinality({i \in 1..(Len(b) - Len(pat) + 1) : SubSeq(b, i, i + Len(pat) - 1) = pat})
MarkerNames == BundleInputs \cup Listed \cup {Basename(a) : a \in BundleInputs}
BundleOps == {"bundle_files", "bundle_assets"}

\* C17: in a bundle written by bundle_files or bundle_assets no marker occurs
\* twice.
C17_MarkersUnique ==
    last \in BundleOps =>
        \A b \in BundleTexts(fs), n \in MarkerNames :
            /\ Count(b, CssMarker(n)) <= 1
            /\ Count(b, JsMarker(n)) <= 1
            /\ Count(b, FilesMarker(n)) <= 1

\* the sources a bundler reads from tree f, by what it printed
SourcesOf(f, op, o) ==
    IF op = "bundle_assets" THEN {DataPath(a) : a \in BundledSources(f)}
    ELSE IF o[1].path = BUNDLE_JS THEN Scripts(f) ELSE Styles(f)
FailedReads(o) ==
    {o[i].path : i \in {j \in 1..Len(o) : o[j].msg \in {"Error reading", "Traceback"}}}
\* the markers a bundle holds for the name of source p
MarkersFor(b, p) ==
    Count(b, CssMarker(RelPath(p, DATA_DIR))) + Count(b, JsMarker(RelPath(p, DATA_DIR)))
        + Count(b, FilesMarker(Basename(p)))

\* C20: when the read of one source fails, the bundler goes on to the end
\* without a traceback, the bundle holds no marker for that source (only
\* those of other sources of the same name), and the text of every other
\* source is in a bundle.
C20_ReadFailureSkipsFile ==
    [][last' \in BundleOps =>
          \A p \in FailedReads(out') :
              LET srcs == SourcesOf(fs, last', out')
              IN  /\ \A i \in 1..Len(out') : out'[i].msg # "Traceback"
                  /\ \A b \in BundleTexts(fs') \ BundleTexts(fs) :
                         MarkersFor(b, p)
                             <= Cardinality({q \in srcs \ {p} : Basename(q) = Basename(p)})
                  /\ \A q \in srcs \ {p} :
                         \E b \in BundleTexts(fs') : ContainsSeq(b, fs[q])]_vars

---------------------------------------------------------------------------
(* Properties of the compressor and of the unbundler.                      *)

Compressors == {"gzip_files", "gzip_bundles", "finalize_filesystem"}
\* the files of tree f an operation compresses
CompressedBy(op, f) ==
    {p \in WalkFiles(f, DATA_DIR) :
        IF op = "gzip_bundles"
        THEN p \in {DataPath(BUNDLE_CSS), DataPath(BUNDLE_JS), DataPath(INDEX_HTML)}
        ELSE IF op = "gzip_files" THEN EndsWithAny(p, {DOTJS, DOTCSS, DOTHTML})
        ELSE EndsWith(p, DOTHTML)}
SaysGzip(o, name) ==
    \E i \in 1..Len(o) : o[i].msg \in {"Gzipped", "Gzipping"} /\ o[i].path = name

\* C18: gzip_files and gzip_bundles leave the plain files as they are; a
\* compressing operation that follows one which has just made a file's
\* sibling (so the sibling is newer than the file) does not write that
\* sibling again; where the sibling is missing or was made from an earlier
\* text of the file, the sibling holds the file's current text afterwards.
C18_CompressOnlyWhenStale ==
    [][last' \in Compressors =>
          /\ last' # "finalize_filesystem" =>
                 \A p \in WalkFiles(fs, DATA_DIR) :
                     ~EndsWith(p, DOTGZ) => Exists(fs', p) /\ fs'[p] = fs[p]
          /\ \A p \in CompressedBy(last', fs) :
                 LET gz == p \o DOTGZ
                 IN  /\ (/\ last \in Compressors /\ SaysGzip(out, Basename(p))
                         /\ Exists(fs, gz) /\ Exists(fs', gz))
                            => /\ ~SaysGzip(out', Basename(p))
                               /\ fs'[gz] = fs[gz]
                     /\ (~Exists(fs, gz) \/ Payload(fs[gz]) # fs[p])
                            => Exists(fs', gz) /\ Payload(fs'[gz]) = fs[p]]_vars

\* a bundle that is missing or holds no marker
NoPair(f, bundle_file) ==
    \/ ~Exists(f, DataPath(bundle_file))
    \/ ~HasMarkerSyntax(f[DataPath(bundle_file)])
SaysFailed(o, bundle_file) ==
    \E i \in 1..Len(o) :
        /\ o[i].msg \in {"Error: not found!", "No files found in bundle!"}
        /\ o[i].path = bundle_file
Bundles == {BUNDLE_JS, BUNDLE_CSS}

\* C19: unbundle of a bundle that is missing or holds no marker prints the
\* failure and changes nothing; the script goes on to bundle.css after such
\* a failure on bundle.js.
C19_FailedUnbundleWritesNothing ==
    [][/\ last' = "unbundle" =>
              \A b \in Bundles :
                  (NoPair(fs, b) /\ out'[1].path = b)
                      => fs' = fs /\ SaysFailed(out', b)
       /\ last' = "recover_main" =>
              /\ \A b \in Bundles : NoPair(fs, b) => SaysFailed(out', b)
              /\ (\A b \in Bundles : NoPair(fs, b)) => fs' = fs
              /\ NoPair(fs, BUNDLE_JS) =>
                     \/ SaysFailed(out', BUNDLE_CSS)
                     \/ Reported(out', "Unbundling", BUNDLE_CSS)]_vars

\* the script has failed on bundle.js and then restored a style from
\* bundle.css
C19_Witness ==
    /\ last = "recover_main"
    /\ SaysFailed(out, BUNDLE_JS)
    /\ Reported(out, "Unbundling", BUNDLE_CSS)
    /\ Reported(out, "Restoring", VARIABLES_CSS)
    /\ Exists(fs, DataPath(VARIABLES_CSS))

---------------------------------------------------------------------------
(* Properties of what the scripts report.                                  *)

\* a source about to be moved onto a file of the archive; a deletion that
\* left no representation of the asset
Collides(f) == \E p \in Movable(f) : Exists(f, ArchiveDest(p))
LastCopyDeleted(ds) ==
    \E d \in ds : ~(d.plain \/ d.compressed \/ d.bundled \/ d.archived)

\* C21: a run of move_sources_to_src, finalize_filesystem or cleanup_files
\* ends with a failing exit status exactly when a source collided with a
\* file of the archive or the last representation of an asset was deleted.
C21_ExitStatusSignalsViolation ==
    [][last' \in {"move_sources_to_src"} \cup Pruners =>
          (ExitStatus(out') # 0
              <=> \/ last' = "move_sources_to_src" /\ Collides(fs)
                  \/ LastCopyDeleted(dels'))]_vars

SaysError(o, name) ==
    \E i \in 1..Len(o) :
        /\ o[i].msg \in {"Error removing", "Error moving", "Error restoring"}
        /\ o[i].path = name

\* C22: a file that finalize_filesystem was to delete, or move_sources_to_src
\* or restore_data was to move, and that is still in its place afterwards is
\* named in a printed error line.
C22_FailuresReported ==
    [][/\ last' = "finalize_filesystem" =>
              \A p \in FinalRemovable(fs) : Exists(fs', p) => SaysError(out', Basename(p))
       /\ last' = "move_sources_to_src" =>
              \A p \in Movable(fs) : Exists(fs', p) => SaysError(out', Basename(p))
       /\ last' = "restore_data" =>
              \A q \in WalkFiles(fs, SRC_DIR) :
                  Exists(fs', q) => SaysError(out', RelPath(q, SRC_DIR))]_vars

RECURSIVE SumSizes(_)
SumSizes(ds) ==
    IF ds = {} THEN 0
    ELSE LET d == CHOOSE x \in ds : TRUE IN d.size + SumSizes(ds \ {d})
\* the number a closing line gives
Total(o, msgs) == (CHOOSE l \in {o[i] : i \in 1..Len(o)} : l.msg \in msgs).n

\* C23: after cleanup_files or finalize_filesystem every deleted file has a
\* printed line of its own with its size, the printed file count is the
\* number of files deleted and the printed total is the sum of their sizes.
C23_DeletionsReported ==
    last \in Pruners =>
        /\ \A d \in dels :
               \E i \in 1..Len(out) :
                   /\ out[i].msg \in {"Removed", "Removed as .gz exists",
                                       "Removed uncompressed (gz exists)"}
                   /\ out[i].path \in {Basename(d.path), DataPath(d.path)}
                   /\ out[i].n = d.size
        /\ Total(out, {"Cleanup finished. Removed files", "Removed files"})
               = Cardinality(dels)
        /\ Total(out, {"freed KB", "Freed KB"}) = KB100(SumSizes(dels))

---------------------------------------------------------------------------
(* Properties of recovery and of the run as a whole.                       *)

\* the entries unbundle finds in a bundle, in the order it writes them
RECURSIVE EntriesFrom(_, _)
EntriesFrom(parts, i) ==
    IF i > Len(parts) THEN <<>>
    ELSE <<[path |-> NormPath(PathJoin(DATA_DIR, CleanName(Strip(parts[i])))),
            text |-> parts[i + 1]]>> \o EntriesFrom(parts, i + 2)
EntriesIn(f, b) ==
    IF ~Exists(f, DataPath(b)) THEN <<>>
    ELSE LET parts == ReSplit(f[DataPath(b)])
         IN  IF Len(parts) < 3 THEN <<>> ELSE EntriesFrom(parts, 2)
\* the entries one recovery step processes: those of the bundle it names,
\* or those of bundle.js and then those of bundle.css
Processed(f, name, o) ==
    IF name = "unbundle" THEN EntriesIn(f, o[1].path)
    ELSE EntriesIn(f, BUNDLE_JS) \o EntriesIn(f, BUNDLE_CSS)
WritesBundle(es) == \E i \in 1..Len(es) : es[i].path = DataPath(BUNDLE_CSS)
SameText(a, b) == Strip(a) = Strip(b)

\* C24: after a recovery step that ran to its end, every path named by an
\* entry holds the content (up to surrounding blanks and newlines) of the
\* last entry processed for that path, whether or not a file was there
\* before and whether the entries came from one bundle or from two.
C24_LastEntryWins ==
    [][(/\ last' \in {"unbundle", "recover_main"}
        /\ ExitStatus(out') = 0
        /\ ~WritesBundle(EntriesIn(fs, BUNDLE_JS)))
          => LET es == Processed(fs, last', out')
             IN  \A i \in 1..Len(es) :
                    (\A j \in (i + 1)..Len(es) : es[j].path # es[i].path)
                       => /\ Exists(fs', es[i].path)
                          /\ SameText(fs'[es[i].path], es[i].text)]_vars
\* both bundles were unbundled over an existing css/x.css, which now holds
\* the text of the second entry of bundle.css
C24_Witness ==
    /\ last = "recover_main" /\ ExitStatus(out) = 0
    /\ Len(SelectSeq(out, LAMBDA l : l.msg = "Restoring" /\ l.path = X_CSS)) = 3
    /\ Exists(fs, DataPath(X_CSS)) /\ fs[DataPath(X_CSS)] = <<"q", "\n">>

\* a per-file script or style, plain or compressed
IsSource(rel) == EndsWithAny(rel, {<<".", "js">>, <<".", "css">>,
                                  <<".", "js">> \o DOTGZ, <<".", "css">> \o DOTGZ})
Leftover(f) == {RelPath(q, DATA_DIR) : q \in WalkFiles(f, DATA_DIR)} \ keep_files
HasBundles(f) == Exists(f, DataPath(BUNDLE_CSS)) /\ Exists(f, DataPath(BUNDLE_JS))
HasCompressed(f) ==
    \A b \in {BUNDLE_CSS, BUNDLE_JS, INDEX_HTML} : Exists(f, DataPath(b) \o DOTGZ)
NoErrorSaid(o) ==
    \A i \in 1..Len(o) :
        o[i].msg \notin {"Error removing", "Error moving", "Traceback"}

\* C25: in the first forward run the tree has its bundles from bundle_assets
\* on, the compressed bundles and entry markup from gzip_bundles on, and
\* keeps both to the end; when the pruning stage has ended without a
\* reported failure, no script or style, plain or compressed, is left in
\* the deployment root outside the keep-set (the files under pages, which
\* the run keeps for the router, aside).
C25_RunEndsMinimal ==
    pc.run = 1 =>
        /\ pc.at \in {"index", "gzip", "prune", "ran"} => HasBundles(fs)
        /\ pc.at \in {"prune", "ran"} => HasCompressed(fs)
        /\ (pc.at = "ran" /\ NoErrorSaid(out))
              => \A rel \in Leftover(fs) : IsSource(rel) => InPages(rel)

\* the plain files a pruner has deleted for having a compressed sibling:
\* all that cleanup_files deletes but the mockup, and the markup that
\* finalize_filesystem deletes
DeletedForSibling(name, f, g) ==
    {p \in DOMAIN f \ DOMAIN g :
        \/ /\ name = "cleanup_files"
           /\ p # DataPath(VISUAL_MOCKUP) /\ ~EndsWith(p, DOTGZ)
        \/ /\ name = "finalize_filesystem" /\ EndsWith(p, DOTHTML)}

\* C26: when cleanup_files or finalize_filesystem deletes a plain file for
\* having a compressed sibling, the sibling left behind decompresses to the
\* text the plain file had when it was deleted.
C26_SiblingIsCurrent ==
    [][last' \in Pruners =>
          \A p \in DeletedForSibling(last', fs, fs') :
              /\ Exists(fs', p \o DOTGZ)
              /\ IsGzip(fs'[p \o DOTGZ])
              /\ Gunzip(fs'[p \o DOTGZ]) = fs[p]]_vars

\* C27: move_sources_to_src and finalize_filesystem leave a file alone for
\* the keep-set exactly when its path from the deployment root is a
\* keep-set path: such a file stays as it is, and every other script or
\* style, plain or compressed (for move_sources_to_src: outside pages), is
\* gone from the deployment root afterwards unless its failure is reported.
C27_ExemptionByPath ==
    [][last' \in {"move_sources_to_src", "finalize_filesystem"} =>
          \A p \in WalkFiles(fs, DATA_DIR) :
              LET rel == RelPath(p, DATA_DIR)
              IN  /\ rel \in keep_files => Exists(fs', p) /\ fs'[p] = fs[p]
                  /\ (/\ rel \notin keep_files /\ IsSource(rel)
                      /\ last' = "move_sources_to_src" => ~InPages(rel)
                      /\ ~SaysError(out', Basename(p)))
                        => ~Exists(fs', p)]_vars

\* C28: when the archive root starts empty, move_sources_to_src moves all it
\* is to move and restore_data then reports no failure, the tree is the one
\* the two started from: the moved files are back at their paths with their
\* texts, no file is left in the archive root, the others are unchanged.
C28_MoveThenRestoreIsIdentity ==
    (/\ pc.at = "restored" /\ last = "restore_data"
     /\ Movable(snap) = {}
     /\ \A i \in 1..Len(out) : out[i].msg # "Error restoring")
        => /\ fs = fs0
           /\ WalkFiles(fs, SRC_DIR) = {}
\* a script and its compressed sibling went to the archive and are back
C28_Witness ==
    /\ pc.at = "restored" /\ last = "restore_data"
    /\ Exists(snap, SrcPath(UTILS_JS)) /\ Exists(snap, SrcPath(UTILS_JS) \o DOTGZ)
    /\ ~Exists(snap, DataPath(UTILS_JS))
    /\ Exists(fs, DataPath(UTILS_JS)) /\ Exists(fs, DataPath(UTILS_JS) \o DOTGZ)
    /\ fs = fs0 /\ WalkFiles(fs, SRC_DIR) = {}

====
